---- MODULE Spec2Model ----
(***************************************************************************)
(* Model of livingdossier/backend/agentpress/thread_manager.py:            *)
(*   - ThreadManager.run_thread: the auto-continue loop that drives        *)
(*     repeated model invocations (_run_once) and relays their chunks;     *)
(*   - ThreadManager._compress_messages and its helpers: meta-stripping,   *)
(*     role-scoped truncation and the recursive halving retry.             *)
(* The two parts share no state in the source; each has its own            *)
(* specification (Spec for run_thread, CompressSpec for compression).      *)
(***************************************************************************)
EXTENDS Integers, Sequences, FiniteSets, TLC

VARIABLES
    \* ---- run_thread ----
    ceiling,              \* native_max_auto_continues
    pc,                   \* position of run_thread's control flow
    auto_continue,        \* nonlocal auto_continue
    auto_continue_count,  \* nonlocal auto_continue_count
    out,                  \* chunks yielded to the caller of run_thread, in order
    turns,                \* one record per _run_once call made so far
    nContent,             \* content chunks produced by the current _run_once call
    temporary_message,    \* run_thread's argument temporary_message (None: not given)
    chunk,                \* the chunk _run_once yielded last (None: none yet)
    nChunks,              \* how many chunks the _run_once calls have yielded
    \* ---- _run_once: preparing the messages of one LLM call ----
    ppc,                  \* position in the preparation
    store,                \* the thread's rows in the messages table, by created_at
    temp_msg,             \* _run_once's argument temp_msg
    llm_messages,         \* the local 'messages': what get_llm_messages returned
    prepared_messages,    \* the local 'prepared_messages'
    turn,                 \* which _run_once call of the run_thread call this is
    submitted,            \* the prompts given to make_llm_api_call, one per turn
    snaps,                \* per fetch: how many rows the store had, and whether
                          \* the query succeeded
    \* ---- add_message ----
    apc,                  \* position of an add_message call
    attempts,             \* insert attempts made by the latest add_message call
    pending,              \* the row that call is to insert
    last_add,             \* db: what the insert did; outcome: what add_message did
    \* ---- _is_tool_result_message ----
    msg,                  \* the message given to _is_tool_result_message
    is_tool_result,       \* what the call did: "true", "false" or "raises"
    \* ---- _compress_messages: the default of max_tokens ----
    bpc,                  \* position: "enter" before the defaults, then "resolved"
    llm_model,            \* the model id, a sequence of parts
    max_tokens_arg,       \* the argument max_tokens: given or None
    budget,               \* max_tokens after the defaults were set
    \* ---- ContextManager.check_and_summarize_if_needed ----
    spc,                  \* position of the call
    sum_rows,             \* the thread's rows with is_llm_message, by created_at
    force,                \* the argument force
    sum_threshold,        \* self.token_threshold
    token_count,          \* the local 'token_count'
    sum_messages,         \* the local 'messages'
    summary,              \* create_summary returned a summary message
    callbacks,            \* how often add_message_callback was invoked
    callback_done,        \* the awaited callback completed
    sum_returned,         \* what the call returned: "true" or "false"
    \* ---- _compress_messages ----
    cpc,                  \* position of _compress_messages' control flow
    messages,             \* the caller's list: the message objects passed in
    input,                \* the contents of 'messages' when the call was made
    result,               \* the local 'result' of the running level
    shared,               \* shared[i]: result[i] is the very object messages[i]
    max_tokens,           \* max_tokens of the running level
    token_threshold,      \* token_threshold of the running level
    max_iterations,       \* max_iterations of the running level
    threshold0,           \* token_threshold of the outermost call
    iterations0,          \* max_iterations of the outermost call
    passes,               \* levels that ran the truncation passes so far
    returned,             \* the value the outermost call returns
    exhausted             \* the value returned comes from 'max_iterations <= 0'

runVars == <<ceiling, pc, auto_continue, auto_continue_count, out, turns, nContent,
             temporary_message, chunk, nChunks>>

prepVars == <<ppc, store, temp_msg, llm_messages, prepared_messages, turn, submitted,
              snaps, apc, attempts, pending, last_add>>

addVars == <<apc, attempts, pending, last_add>>

cmpVars == <<cpc, messages, input, result, shared, max_tokens, token_threshold,
             max_iterations, threshold0, iterations0, passes, returned, exhausted>>

trVars == <<msg, is_tool_result>>

budgetVars == <<bpc, llm_model, max_tokens_arg, budget>>

sumVars == <<spc, sum_rows, force, sum_threshold, token_count, sum_messages, summary,
             callbacks, callback_done, sum_returned>>

fnVars == <<trVars, budgetVars, sumVars>>

vars == <<runVars, cmpVars, prepVars, fnVars>>

(***************************************************************************)
(* Bounds of the model.                                                    *)
(***************************************************************************)
MaxCeiling == 3     \* largest native_max_auto_continues explored
MaxChunks == 2      \* content chunks one response may carry
MaxMsgs == 3        \* longest message sequence given to _compress_messages
MaxRetries == 2     \* largest max_iterations given to _compress_messages

Max(a, b) == IF a >= b THEN a ELSE b

(***************************************************************************)
(* Chunks.  A chunk is a mapping with a 'type'; finish chunks carry a      *)
(* finish_reason.                                                          *)
(***************************************************************************)
FinishReasons == {"tool_calls", "xml_tool_limit_reached", "stop", "length"}

ContentChunk == [type |-> "content", info |-> "delta"]
FinishChunk(r) == [type |-> "finish", info |-> r]
\* the chunk _run_once yields from its except clause
ErrorChunk == [type |-> "status", info |-> "error"]
\* the chunk auto_continue_wrapper yields after the loop
LimitChunk == [type |-> "content", info |-> "limit"]

\* the record kept for one _run_once call
\* a message: its role and its message_id (0: it has none)
Message(role, id) == [role |-> role, id |-> id]

\* Python's None where a message is expected
None == Message("none", 0)

\* a temporary message as callers pass it: a user message that is not stored
TemporaryMessage == Message("user", 0)

TemporaryMessages == {None, TemporaryMessage}

\* the record kept for one _run_once call; temp_msg is the argument it got
NewTurn == [fin |-> "none", raised |-> FALSE, post |-> FALSE, ended |-> FALSE,
            temp_msg |-> None]

TempMsgArg_Mut(tm, cnt) == tm

\* 'temporary_message if auto_continue_count == 0 else None'
TempMsgArg(tm, cnt) == IF cnt = 0 THEN tm ELSE None

Ceilings == (-1) .. MaxCeiling

(***************************************************************************)
(* auto_continue_wrapper: the loop condition, the treatment of one chunk   *)
(* and the test made after the loop.                                       *)
(***************************************************************************)
LoopCond_Mut(ac, cnt, n) == ac /\ (n = 0 \/ cnt <= n)

LoopCond(ac, cnt, n) == ac /\ (n = 0 \/ cnt < n)

\* The body of 'async for chunk in _run_once(...)': whether the chunk is
\* yielded, and the values of auto_continue and auto_continue_count after it.
Relay_MutXml(ch, n, ac, cnt) ==
    IF ch.type = "finish" /\ ch.info \in {"tool_calls", "xml_tool_limit_reached"} /\ n > 0
    THEN [yield |-> ch.info # "tool_calls", ac |-> TRUE, cnt |-> cnt + 1]
    ELSE [yield |-> TRUE, ac |-> ac, cnt |-> cnt]

Relay_MutForward(ch, n, ac, cnt) ==
    IF ch.type = "finish" /\ ch.info = "tool_calls" /\ n > 0
    THEN [yield |-> TRUE, ac |-> TRUE, cnt |-> cnt + 1]
    ELSE [yield |-> TRUE, ac |-> ch.type # "finish" /\ ac, cnt |-> cnt]

Relay_MutReason(ch, n, ac, cnt) ==
    IF ch.type = "finish" /\ ch.info # "xml_tool_limit_reached" /\ n > 0
    THEN [yield |-> ch.info # "tool_calls", ac |-> TRUE,
          cnt |-> IF ch.info = "tool_calls" THEN cnt + 1 ELSE cnt]
    ELSE [yield |-> TRUE, ac |-> ch.type # "finish" /\ ac, cnt |-> cnt]

Relay(ch, n, ac, cnt) ==
    IF ch.type = "finish"
    THEN IF ch.info = "tool_calls"
         THEN IF n > 0
              THEN [yield |-> FALSE, ac |-> TRUE, cnt |-> cnt + 1]
              ELSE [yield |-> TRUE, ac |-> ac, cnt |-> cnt]
         ELSE IF ch.info = "xml_tool_limit_reached"
              THEN [yield |-> TRUE, ac |-> FALSE, cnt |-> cnt]
              ELSE [yield |-> TRUE, ac |-> ac, cnt |-> cnt]
    ELSE [yield |-> TRUE, ac |-> ac, cnt |-> cnt]

LimitReached_Mut(ac, cnt, n) == ac /\ cnt > n

LimitReached(ac, cnt, n) == ac /\ cnt >= n

(***************************************************************************)
(* run_thread                                                              *)
(***************************************************************************)
RunInit ==
    /\ ceiling \in Ceilings
    /\ pc = "entry"
    /\ auto_continue = TRUE
    /\ auto_continue_count = 0
    /\ out = <<>>
    /\ turns = <<>>
    /\ nContent = 0
    /\ temporary_message \in TemporaryMessages
    /\ chunk = None
    /\ nChunks = 0

\* native_max_auto_continues == 0: _run_once is iterated directly
RunDirect ==
    /\ pc = "entry"
    /\ ceiling = 0
    /\ pc' = "direct"
    /\ turns' = Append(turns, [NewTurn EXCEPT !.temp_msg = temporary_message])
    /\ nContent' = 0
    /\ UNCHANGED <<ceiling, temporary_message, chunk, nChunks, auto_continue, auto_continue_count, out, cmpVars, prepVars, fnVars>>

\* otherwise auto_continue_wrapper is iterated
EnterWrapper ==
    /\ pc = "entry"
    /\ ceiling # 0
    /\ pc' = "while"
    /\ UNCHANGED <<ceiling, temporary_message, chunk, nChunks, auto_continue, auto_continue_count, out, turns, nContent, cmpVars, prepVars, fnVars>>

\* the while condition holds: reset auto_continue and start _run_once
LoopEnter ==
    /\ pc = "while"
    /\ LoopCond(auto_continue, auto_continue_count, ceiling)
    /\ auto_continue' = FALSE
    /\ turns' = Append(turns,
           [NewTurn EXCEPT !.temp_msg = TempMsgArg(temporary_message, auto_continue_count)])
    /\ nContent' = 0
    /\ pc' = "relay"
    /\ UNCHANGED <<ceiling, temporary_message, chunk, nChunks, auto_continue_count, out, cmpVars, prepVars, fnVars>>

\* the while condition fails
LoopExit ==
    /\ pc = "while"
    /\ ~LoopCond(auto_continue, auto_continue_count, ceiling)
    /\ pc' = "after"
    /\ UNCHANGED <<ceiling, temporary_message, chunk, nChunks, auto_continue, auto_continue_count, out, turns, nContent, cmpVars, prepVars, fnVars>>

\* the test after the loop: the synthetic limit-reached chunk
PostLoop ==
    /\ pc = "after"
    /\ out' = IF LimitReached(auto_continue, auto_continue_count, ceiling)
              THEN Append(out, LimitChunk) ELSE out
    /\ pc' = "done"
    /\ UNCHANGED <<ceiling, temporary_message, chunk, nChunks, auto_continue, auto_continue_count, turns, nContent, cmpVars, prepVars, fnVars>>

CurTurn == turns[Len(turns)]

SetTurn(t) == [turns EXCEPT ![Len(turns)] = t]

\* _run_once yields a chunk inside the wrapper's loop
WrapperChunk(ch) ==
    LET r == Relay(ch, ceiling, auto_continue, auto_continue_count) IN
    /\ auto_continue' = r.ac
    /\ auto_continue_count' = r.cnt
    /\ out' = IF r.yield THEN Append(out, ch) ELSE out
    /\ chunk' = ch
    /\ nChunks' = nChunks + 1

\* _run_once yields a chunk on the direct path: every chunk is yielded
DirectChunk(ch) ==
    /\ out' = Append(out, ch)
    /\ chunk' = ch
    /\ nChunks' = nChunks + 1
    /\ UNCHANGED <<auto_continue, auto_continue_count>>

\* the response processor produces a content chunk
RelayContent ==
    /\ pc = "relay"
    /\ nContent < MaxChunks
    /\ WrapperChunk(ContentChunk)
    /\ nContent' = nContent + 1
    /\ turns' = SetTurn([CurTurn EXCEPT !.post = (CurTurn.fin # "none")])
    /\ UNCHANGED <<ceiling, temporary_message, pc, cmpVars, prepVars, fnVars>>

DirectContent ==
    /\ pc = "direct"
    /\ nContent < MaxChunks
    /\ DirectChunk(ContentChunk)
    /\ nContent' = nContent + 1
    /\ turns' = SetTurn([CurTurn EXCEPT !.post = (CurTurn.fin # "none")])
    /\ UNCHANGED <<ceiling, temporary_message, pc, cmpVars, prepVars, fnVars>>

\* the response processor produces the finish chunk of this response (one
\* response carries at most one finish chunk; other chunks may follow it)
RelayFinish ==
    /\ pc = "relay"
    /\ CurTurn.fin = "none"
    /\ \E r \in FinishReasons :
         /\ WrapperChunk(FinishChunk(r))
         /\ turns' = SetTurn([CurTurn EXCEPT !.fin = r])
    /\ UNCHANGED <<ceiling, temporary_message, pc, nContent, cmpVars, prepVars, fnVars>>

DirectFinish ==
    /\ pc = "direct"
    /\ CurTurn.fin = "none"
    /\ \E r \in FinishReasons :
         /\ DirectChunk(FinishChunk(r))
         /\ turns' = SetTurn([CurTurn EXCEPT !.fin = r])
    /\ UNCHANGED <<ceiling, temporary_message, pc, nContent, cmpVars, prepVars, fnVars>>

\* 'if not auto_continue: break' once _run_once is exhausted
AfterTurn(ac) == IF ~ac THEN "after" ELSE "while"

\* An exception inside _run_once, at any point of the turn: its except clause
\* yields the error chunk and the generator ends.  The whole body of _run_once
\* is inside that try, so no exception of a turn reaches the except clause of
\* auto_continue_wrapper: the wrapper sees the error chunk as one more chunk.
RelayRaise ==
    /\ pc = "relay"
    /\ WrapperChunk(ErrorChunk)
    /\ turns' = SetTurn([CurTurn EXCEPT !.raised = TRUE, !.ended = TRUE])
    /\ pc' = AfterTurn(auto_continue')
    /\ UNCHANGED <<ceiling, temporary_message, nContent, cmpVars, prepVars, fnVars>>

DirectRaise ==
    /\ pc = "direct"
    /\ DirectChunk(ErrorChunk)
    /\ turns' = SetTurn([CurTurn EXCEPT !.raised = TRUE, !.ended = TRUE])
    /\ pc' = "done"
    /\ UNCHANGED <<ceiling, temporary_message, nContent, cmpVars, prepVars, fnVars>>

\* _run_once is exhausted without an exception
RelayEnd ==
    /\ pc = "relay"
    /\ turns' = SetTurn([CurTurn EXCEPT !.ended = TRUE])
    /\ pc' = AfterTurn(auto_continue)
    /\ UNCHANGED <<ceiling, temporary_message, chunk, nChunks, auto_continue, auto_continue_count, out, nContent, cmpVars, prepVars, fnVars>>

DirectEnd_Mut ==
    /\ pc = "direct"
    /\ turns' = SetTurn([CurTurn EXCEPT !.ended = TRUE])
    /\ pc' = "while"
    /\ UNCHANGED <<ceiling, temporary_message, chunk, nChunks, auto_continue, auto_continue_count, out, nContent, cmpVars, prepVars, fnVars>>

DirectEnd ==
    /\ pc = "direct"
    /\ turns' = SetTurn([CurTurn EXCEPT !.ended = TRUE])
    /\ pc' = "done"
    /\ UNCHANGED <<ceiling, temporary_message, chunk, nChunks, auto_continue, auto_continue_count, out, nContent, cmpVars, prepVars, fnVars>>


(***************************************************************************)
(* Messages.  A message has a role, a message_id (0: none) and a content.  *)
(* A content is described by                                               *)
(*   form : "text"  a string that does not parse as a JSON mapping,        *)
(*          "json"  a string that does (while it is uncut),                *)
(*          "dict"  a mapping;                                             *)
(*   n    : the length of the string (of json.dumps(content) for a dict);  *)
(*   mark : where the first "ToolResult" in it ends (0: it has none);      *)
(*   te   : the 'tool_execution' entry of the mapping: "none", "args"      *)
(*          (a mapping with 'arguments'), "noargs" (a mapping without),    *)
(*          "bad" (not a mapping);                                         *)
(*   argn : the characters the 'arguments' entry takes in the dump;        *)
(*   pad  : the characters json.dumps(json.loads(s)) has more than the     *)
(*          string s itself (0 for a mapping and for a string written as   *)
(*          json.dumps writes it);                                         *)
(*   cuts : the truncations applied, oldest first: the string is cut at    *)
(*          'at' characters and a suffix is appended.                      *)
(***************************************************************************)
Content(form, n, mark, te, argn) ==
    [form |-> form, n |-> n, mark |-> mark, te |-> te, argn |-> argn, pad |-> 0,
     cuts |-> <<>>]

\* a JSON string written without the spaces json.dumps puts after ',' and ':'
Compact(c, pad) == [c EXCEPT !.pad = pad]

Msg(role, id, content) == [role |-> role, id |-> id, content |-> content]

\* len("... (truncated)")
TruncatedLen == 15
\* len('\n\nmessage_id ""\nUse expand-message tool to see contents')
PointerLen == 55
\* len(str(message_id)) for the identifiers the store assigns
IdLen == 36
\* len("\n\nThis message is too long, repeat relevant information ...")
SafeSuffixLen == 87
\* token_counter, taken as one token per CharsPerToken characters, rounded up
CharsPerToken == 4

SuffixLen(k) ==
    IF k.sfx = "safe" THEN SafeSuffixLen ELSE TruncatedLen + PointerLen + IdLen

ContentLen(c) ==
    IF c.cuts = <<>> THEN c.n
    ELSE c.cuts[Len(c.cuts)].at + SuffixLen(c.cuts[Len(c.cuts)])

\* the forms of a content: "text" is a string that is not JSON, "json" a string
\* that parses to a mapping, "jsonlist" a string that parses to something else,
\* "jsonerr" a string on which json.loads raises an error that is not a
\* JSONDecodeError (more than 4300 digits, or nested beyond the recursion
\* limit); "dict" is a mapping, "list" a list, "none" is None and "absent" is a
\* message without the key 'content'
IsStr(c) == c.form \in {"text", "json", "jsonlist", "jsonerr"}

\* json.loads(content) gives a mapping
ParsesAsDict(c) == c.form = "json" /\ c.cuts = <<>>

\* "ToolResult" in content
HasMarker(c) == c.mark > 0 /\ \A i \in 1 .. Len(c.cuts) : c.cuts[i].at >= c.mark

\* content[:at] + suffix; what an earlier cut appended at or beyond 'at' is gone
Cut(c, at, sfx, id) ==
    [c EXCEPT !.form = IF c.form = "dict" THEN "json" ELSE c.form,
              !.cuts = Append(SelectSeq(c.cuts, LAMBDA k : k.at < at),
                              [at |-> at, sfx |-> sfx, id |-> id])]

MsgTokens(m) == (ContentLen(m.content) + CharsPerToken - 1) \div CharsPerToken

RECURSIVE TotalTokens(_)
TotalTokens(s) ==
    IF s = <<>> THEN 0 ELSE MsgTokens(Head(s)) + TotalTokens(Tail(s))

IsToolResultMessage(m) ==
    /\ ContentLen(m.content) > 0
    /\ \/ IsStr(m.content) /\ HasMarker(m.content)
       \/ m.content.form = "dict" /\ m.content.te # "none"
       \/ IsStr(m.content) /\ ParsesAsDict(m.content) /\ m.content.te # "none"

\* json.loads raises past 'except (json.JSONDecodeError, TypeError)'; the test
\* for the marker comes first
IsToolResultRaises(m) ==
    /\ ContentLen(m.content) > 0
    /\ m.content.form = "jsonerr"
    /\ ~HasMarker(m.content)

CompressMessage(c, id, max_length) ==
    IF ContentLen(c) > max_length THEN Cut(c, max_length, "compress", id) ELSE c

SafeTruncate(c, max_length) ==
    IF ContentLen(c) > max_length THEN Cut(c, max_length, "safe", 0) ELSE c

(***************************************************************************)
(* _compress_tool_result_messages, _compress_user_messages and             *)
(* _compress_assistant_messages: the same loop over reversed(messages),    *)
(* selecting by _is_tool_result_message, role 'user' and role 'assistant'. *)
(***************************************************************************)
Selected(m, kind) ==
    IF kind = "tool_result" THEN IsToolResultMessage(m) ELSE m.role = kind

\* _i when the loop reaches position i
CountFromEnd(seq, i, kind) ==
    Cardinality({j \in i .. Len(seq) : Selected(seq[j], kind)})

OverBudget_Mut(total, max) == total >= max

OverBudget(total, max) == total > max

TruncateOne_MutAtThreshold(m, i_, max, threshold) ==
    IF MsgTokens(m) >= threshold
    THEN IF i_ > 1
         THEN IF m.id # 0
              THEN CompressMessage(m.content, m.id, threshold * 3)
              ELSE m.content
         ELSE SafeTruncate(m.content, max * 2)
    ELSE m.content

TruncateOne_MutNoId(m, i_, max, threshold) ==
    IF MsgTokens(m) > threshold
    THEN IF i_ > 1
         THEN CompressMessage(m.content, m.id, threshold * 3)
         ELSE SafeTruncate(m.content, max * 2)
    ELSE m.content

\* the content the loop leaves in a selected message whose counter is i_
TruncateOne(m, i_, max, threshold) ==
    IF MsgTokens(m) > threshold
    THEN IF i_ > 1
         THEN IF m.id # 0
              THEN CompressMessage(m.content, m.id, threshold * 3)
              ELSE m.content
         ELSE SafeTruncate(m.content, max * 2)
    ELSE m.content

RolePass_Mut(seq, kind, max, threshold) ==
    [i \in 1 .. Len(seq) |->
        IF Selected(seq[i], kind)
        THEN [seq[i] EXCEPT !.content =
                TruncateOne(seq[i], CountFromEnd(seq, i, kind), max, threshold)]
        ELSE seq[i]]

RolePass(seq, kind, max, threshold) ==
    IF OverBudget(TotalTokens(seq), max)
    THEN [i \in 1 .. Len(seq) |->
            IF Selected(seq[i], kind)
            THEN [seq[i] EXCEPT !.content =
                    TruncateOne(seq[i], CountFromEnd(seq, i, kind), max, threshold)]
            ELSE seq[i]]
    ELSE seq

(***************************************************************************)
(* _remove_meta_messages                                                   *)
(***************************************************************************)
\* the loop body takes the branch that builds new_msg
IsMetaDict(m) == m.content.form = "dict" \/ ParsesAsDict(m.content)

\* tool_execution.copy() fails on a value that has no copy()
MetaRaises(seq) ==
    \E i \in 1 .. Len(seq) :
        \/ IsMetaDict(seq[i]) /\ seq[i].content.te = "bad"
        \/ seq[i].content.form = "jsonerr"

\* json.dumps of the copy without tool_execution's 'arguments'
StripArguments_MutDrop(c) ==
    [c EXCEPT !.form = "json",
              !.n = c.n + c.pad - (IF c.te = "args" THEN c.argn ELSE 0),
              !.pad = 0,
              !.te = "none",
              !.argn = 0]

StripArguments_Mut(c) ==
    [c EXCEPT !.form = "json",
              !.n = c.n + c.pad - (IF c.te = "args" THEN c.argn ELSE 0),
              !.te = IF c.te = "args" THEN "noargs" ELSE c.te,
              !.argn = IF c.te = "args" THEN 0 ELSE c.argn]

StripArguments(c) ==
    [c EXCEPT !.form = "json",
              !.n = c.n + c.pad - (IF c.te = "args" THEN c.argn ELSE 0),
              !.pad = 0,
              !.te = IF c.te = "args" THEN "noargs" ELSE c.te,
              !.argn = IF c.te = "args" THEN 0 ELSE c.argn]

RemoveMetaMessages_Mut(seq) ==
    SelectSeq(seq, LAMBDA m : ~(IsMetaDict(m) /\ m.content.te # "none"))

RemoveMetaMessages(seq) ==
    [i \in 1 .. Len(seq) |->
        IF IsMetaDict(seq[i])
        THEN [seq[i] EXCEPT !.content = StripArguments(seq[i].content)]
        ELSE seq[i]]

(***************************************************************************)
(* _compress_messages                                                      *)
(***************************************************************************)
\* the messages the model draws its inputs from
Templates ==
    { Msg("user", 1, Content("text", 256, 0, "none", 0)),
      Msg("user", 1, Content("text", 1200, 0, "none", 0)),
      Msg("user", 1, Content("text", 1200, 10, "none", 0)),
      Msg("assistant", 1, Content("text", 400, 0, "none", 0)),
      Msg("assistant", 0, Content("text", 1200, 0, "none", 0)),
      Msg("tool", 1, Compact(Content("json", 1200, 0, "args", 300), 8)),
      Msg("tool", 1, Content("dict", 400, 0, "noargs", 0)),
      Msg("assistant", 1, Content("json", 400, 0, "bad", 0)),
      Msg("system", 0, Content("text", 1200, 10, "none", 0)) }

\* message_ids are distinct: a message that has one gets its position
WithIds(seq) ==
    [i \in 1 .. Len(seq) |-> [seq[i] EXCEPT !.id = IF seq[i].id = 0 THEN 0 ELSE i]]

Inputs ==
    UNION { {WithIds(s) : s \in [1 .. n -> Templates]} : n \in 0 .. MaxMsgs }

MaxTokensInputs == {100, 300}

ThresholdInputs == {1, 64}

CompressInit ==
    /\ cpc = "enter"
    /\ messages \in Inputs
    /\ input = messages
    /\ result = <<>>
    /\ shared = <<>>
    /\ max_tokens \in MaxTokensInputs
    /\ token_threshold \in ThresholdInputs
    /\ max_iterations \in 0 .. MaxRetries
    /\ threshold0 = token_threshold
    /\ iterations0 = max_iterations
    /\ passes = 0
    /\ returned = <<>>
    /\ exhausted = FALSE

IterationsExhausted_Mut(n) == n < 0

\* 'if max_iterations <= 0'
IterationsExhausted(n) == n <= 0

\* 'if max_iterations <= 0: return messages'
ReturnUncompressed ==
    /\ cpc = "enter"
    /\ IterationsExhausted(max_iterations)
    /\ returned' = messages
    /\ exhausted' = TRUE
    /\ cpc' = "returned"
    /\ UNCHANGED <<messages, input, result, shared, max_tokens, token_threshold,
                   max_iterations, threshold0, iterations0, passes, runVars, prepVars, fnVars>>

\* 'result = self._remove_meta_messages(result)'
RemoveMeta ==
    /\ cpc = "enter"
    /\ ~IterationsExhausted(max_iterations)
    /\ IF MetaRaises(messages)
       THEN /\ cpc' = "raised"
            /\ UNCHANGED <<result, shared>>
       ELSE /\ cpc' = "tool_result"
            /\ result' = RemoveMetaMessages(messages)
            /\ shared' = [i \in 1 .. Len(messages) |-> ~IsMetaDict(messages[i])]
    /\ UNCHANGED <<messages, input, max_tokens, token_threshold, max_iterations,
                   threshold0, iterations0, passes, returned, exhausted, runVars, prepVars, fnVars>>

\* a role pass assigns msg["content"]: the caller's object changes with it
\* where result holds that very object
WriteThrough(newResult) ==
    [i \in 1 .. Len(messages) |->
        IF i <= Len(shared) /\ i <= Len(newResult) /\ shared[i]
        THEN newResult[i] ELSE messages[i]]

Pass(kind, nextPc) ==
    /\ cpc = kind
    /\ LET r == RolePass(result, kind, max_tokens, token_threshold) IN
         /\ result' = r
         /\ messages' = WriteThrough(r)
    /\ cpc' = nextPc
    /\ UNCHANGED <<input, shared, max_tokens, token_threshold, max_iterations,
                   threshold0, iterations0, returned, exhausted, runVars, prepVars, fnVars>>

CompressToolResultMessages ==
    /\ Pass("tool_result", "user")
    /\ passes' = passes + 1

CompressUserMessages ==
    /\ Pass("user", "assistant")
    /\ UNCHANGED passes

CompressAssistantMessages ==
    /\ Pass("assistant", "check")
    /\ UNCHANGED passes

\* 'if (compressed_token_count > max_tokens)'
FurtherCompressionNeeded(count, max) == count > max

Recurse_Mut ==
    /\ cpc = "check"
    /\ FurtherCompressionNeeded(TotalTokens(result), max_tokens)
    /\ returned' = result
    /\ cpc' = "returned"
    /\ UNCHANGED <<messages, input, result, shared, max_tokens, token_threshold,
                   max_iterations, threshold0, iterations0, passes, exhausted, runVars, prepVars, fnVars>>

Halve_Mut(threshold) == threshold

\* 'token_threshold // 2'
Halve(threshold) == threshold \div 2

NextIterations_Mut(n) == n

\* 'max_iterations - 1'
NextIterations(n) == n - 1

\* the recursive call: on 'messages', with the threshold halved
Recurse ==
    /\ cpc = "check"
    /\ FurtherCompressionNeeded(TotalTokens(result), max_tokens)
    /\ token_threshold' = Halve(token_threshold)
    /\ max_iterations' = NextIterations(max_iterations)
    /\ cpc' = "enter"
    /\ UNCHANGED <<messages, input, result, shared, max_tokens, threshold0,
                   iterations0, passes, returned, exhausted, runVars, prepVars, fnVars>>

\* 'return result'
ReturnResult ==
    /\ cpc = "check"
    /\ ~FurtherCompressionNeeded(TotalTokens(result), max_tokens)
    /\ returned' = result
    /\ cpc' = "returned"
    /\ UNCHANGED <<messages, input, result, shared, max_tokens, token_threshold,
                   max_iterations, threshold0, iterations0, passes, exhausted, runVars, prepVars, fnVars>>

CompressNext ==
    \/ ReturnUncompressed
    \/ RemoveMeta
    \/ CompressToolResultMessages
    \/ CompressUserMessages
    \/ CompressAssistantMessages
    \/ Recurse
    \/ ReturnResult

\* no _compress_messages call is under way
CompressIdle ==
    /\ cpc = "idle"
    /\ messages = <<>>
    /\ input = <<>>
    /\ result = <<>>
    /\ shared = <<>>
    /\ max_tokens = 0
    /\ token_threshold = 0
    /\ max_iterations = 0
    /\ threshold0 = 0
    /\ iterations0 = 0
    /\ passes = 0
    /\ returned = <<>>
    /\ exhausted = FALSE

(***************************************************************************)
(* _run_once, up to the prepared messages: get_llm_messages and the        *)
(* placement of the temporary message.  A row of the messages table has a  *)
(* role, a message_id and a kind of content:                               *)
(*   "dict"       a mapping, or a string that parses as one,               *)
(*   "unparsable" a string json.loads rejects,                             *)
(*   "nondict"    JSON that is not a mapping: setting its 'message_id'     *)
(*                raises TypeError.                                        *)
(***************************************************************************)
MaxThread == 3

ThreadRoles == {"user", "assistant", "tool"}

RowKinds == {"dict", "unparsable", "nondict"}

Row(role, id, kind) == [role |-> role, id |-> id, kind |-> kind]

\* the stores: row i carries message_id i
Stores ==
    UNION {{[i \in 1 .. n |-> Row(f[i][1], i, f[i][2])] :
                f \in [1 .. n -> ThreadRoles \X RowKinds]} : n \in 0 .. MaxThread}

\* the working system prompt
SystemPrompt == Message("system", 0)

RECURSIVE ParsedRows(_)
\* the loop over result.data: an unparsable row is logged and skipped
ParsedRows(rows) ==
    IF rows = <<>> THEN <<>>
    ELSE LET rest == ParsedRows(Tail(rows)) IN
         IF Head(rows).kind = "unparsable" THEN rest
         ELSE <<Message(Head(rows).role, Head(rows).id)>> \o rest

\* what get_llm_messages returns when the query succeeds; a TypeError of the
\* loop is caught by 'except Exception', which returns []
LlmMessages(rows) ==
    IF \E i \in 1 .. Len(rows) : rows[i].kind = "nondict" THEN <<>>
    ELSE ParsedRows(rows)

RECURSIVE LastUserFrom(_, _, _)
\* 'for i, msg in enumerate(messages): if role == user: last_user_index = i'
LastUserFrom(msgs, i, last) ==
    IF i > Len(msgs) THEN last
    ELSE LastUserFrom(msgs, i + 1, IF msgs[i].role = "user" THEN i ELSE last)

LastUserIndex_Mut(msgs) ==
    IF \E i \in 1 .. Len(msgs) : msgs[i].role = "user"
    THEN CHOOSE i \in 1 .. Len(msgs) :
            msgs[i].role = "user" /\ \A j \in 1 .. i - 1 : msgs[j].role # "user"
    ELSE 0

\* last_user_index, counted from 1 (0: no user message)
LastUserIndex(msgs) == LastUserFrom(msgs, 1, 0)

\* 'if temp_msg': a message is a non-empty dict, so only None is false
Truthy(m) == m # None

PreparedMessages_Mut(system, msgs, temp) ==
    LET k == LastUserIndex(msgs) IN
    IF Truthy(temp) /\ k >= 1
    THEN <<system>> \o SubSeq(msgs, 1, k - 1) \o <<temp>> \o SubSeq(msgs, k, Len(msgs))
    ELSE <<system>> \o msgs

\* prepared_messages as _run_once builds it
PreparedMessages(system, msgs, temp) ==
    LET k == LastUserIndex(msgs) IN
    IF Truthy(temp) /\ k >= 1
    THEN <<system>> \o SubSeq(msgs, 1, k - 1) \o <<temp>> \o SubSeq(msgs, k, Len(msgs))
    ELSE <<system>> \o msgs \o (IF Truthy(temp) THEN <<temp>> ELSE <<>>)

\* no add_message call has been made
AddIdle ==
    /\ apc = "idle"
    /\ attempts = 0
    /\ pending = Row("none", 0, "dict")
    /\ last_add = [db |-> "none", outcome |-> "none"]

PrepareInit ==
    /\ ppc = "fetch"
    /\ store \in Stores
    /\ temp_msg \in TemporaryMessages
    /\ llm_messages = <<>>
    /\ prepared_messages = <<>>
    /\ turn = 1
    /\ submitted = <<>>
    /\ snaps = <<>>
    /\ AddIdle

\* 'messages = await self.get_llm_messages(thread_id)'
GetLlmMessages ==
    /\ ppc = "fetch"
    /\ llm_messages' = LlmMessages(store)
    /\ snaps' = Append(snaps, [upto |-> Len(store), ok |-> TRUE])
    /\ ppc' = "prepare"
    /\ UNCHANGED <<store, temp_msg, prepared_messages, turn, submitted, addVars,
                   runVars, cmpVars, fnVars>>

GetLlmMessagesFails_Mut ==
    /\ ppc = "fetch"
    /\ llm_messages' = LlmMessages(store)
    /\ snaps' = Append(snaps, [upto |-> Len(store), ok |-> FALSE])
    /\ ppc' = "prepare"
    /\ UNCHANGED <<store, temp_msg, prepared_messages, turn, submitted, addVars,
                   runVars, cmpVars, fnVars>>

\* the query raises: get_llm_messages logs the error and returns []
GetLlmMessagesFails ==
    /\ ppc = "fetch"
    /\ llm_messages' = <<>>
    /\ snaps' = Append(snaps, [upto |-> Len(store), ok |-> FALSE])
    /\ ppc' = "prepare"
    /\ UNCHANGED <<store, temp_msg, prepared_messages, turn, submitted, addVars,
                   runVars, cmpVars, fnVars>>

\* the system prompt, the fetched messages and the temporary message
PrepareMessages ==
    /\ ppc = "prepare"
    /\ prepared_messages' = PreparedMessages(SystemPrompt, llm_messages, temp_msg)
    /\ ppc' = "prepared"
    /\ UNCHANGED <<store, temp_msg, llm_messages, turn, submitted, snaps, addVars,
                   runVars, cmpVars, fnVars>>

PrepareNext ==
    \/ GetLlmMessages
    \/ GetLlmMessagesFails
    \/ PrepareMessages

(***************************************************************************)
(* The turns of one run_thread call, seen from the store: each _run_once   *)
(* call fetches, prepares, compresses, calls the model and relays the      *)
(* response, while add_message calls (the response processor's callback,   *)
(* other users of the thread) append rows.  Which turns follow each other  *)
(* is auto_continue_wrapper's matter, modelled above; here a further turn  *)
(* may or may not follow.                                                  *)
(***************************************************************************)
MaxTurns == 2

MaxParts == 2

\* most rows the thread given to check_and_summarize_if_needed holds
MaxRows == 4

\* a thread is new, or holds the user's first message
InitialStores == {<<>>, <<Row("user", 1, "dict")>>}

\* the response processor stores the assistant's messages and the tool results
AddedRoles == {"assistant"}

TurnInit ==
    /\ ppc = "fetch"
    /\ store \in InitialStores
    /\ temp_msg \in TemporaryMessages
    /\ llm_messages = <<>>
    /\ prepared_messages = <<>>
    /\ turn = 1
    /\ submitted = <<>>
    /\ snaps = <<>>
    /\ AddIdle

\* 'prepared_messages = self._compress_messages(prepared_messages, llm_model)':
\* the roles, the message_ids and their order are kept; contents are not part
\* of a Message
CompressPrepared ==
    /\ ppc = "prepared"
    /\ ppc' = "compressed"
    /\ UNCHANGED <<store, temp_msg, llm_messages, prepared_messages, turn, submitted,
                   snaps, addVars, runVars, cmpVars, fnVars>>

\* 'llm_response = await make_llm_api_call(prepared_messages, ...)'
Invoke ==
    /\ ppc = "compressed"
    /\ submitted' = Append(submitted, prepared_messages)
    /\ ppc' = "relay"
    /\ UNCHANGED <<store, temp_msg, llm_messages, prepared_messages, turn, snaps,
                   addVars, runVars, cmpVars, fnVars>>

\* an exception in _compress_messages, in the model call or in the response
\* stream: _run_once yields the error chunk and ends
TurnRaises ==
    /\ ppc \in {"prepared", "compressed", "relay"}
    /\ ppc' = "done"
    /\ UNCHANGED <<store, temp_msg, llm_messages, prepared_messages, turn, submitted,
                   snaps, addVars, runVars, cmpVars, fnVars>>

\* the response is exhausted and the wrapper starts another _run_once call
Continue ==
    /\ ppc = "relay"
    /\ turn < MaxTurns
    /\ turn' = turn + 1
    /\ temp_msg' = TempMsgArg(temp_msg, turn)
    /\ llm_messages' = <<>>
    /\ prepared_messages' = <<>>
    /\ ppc' = "fetch"
    /\ UNCHANGED <<store, submitted, snaps, addVars, runVars, cmpVars, fnVars>>

\* the response is exhausted and no further call is made
Stop ==
    /\ ppc = "relay"
    /\ ppc' = "done"
    /\ UNCHANGED <<store, temp_msg, llm_messages, prepared_messages, turn, submitted,
                   snaps, addVars, runVars, cmpVars, fnVars>>

\* add_message is called while the thread runs; the content given decides the
\* kind of the row
AddMessage ==
    /\ apc = "idle"
    /\ ppc \notin {"idle", "done"}
    /\ Len(store) < MaxThread
    /\ \E role \in AddedRoles, kind \in RowKinds :
           pending' = Row(role, Len(store) + 1, kind)
    /\ attempts' = 0
    /\ apc' = "insert"
    /\ UNCHANGED <<ppc, store, temp_msg, llm_messages, prepared_messages, turn,
                   submitted, snaps, last_add, runVars, cmpVars, fnVars>>

\* the insert returns the row: add_message returns it
InsertOk ==
    /\ apc = "insert"
    /\ store' = Append(store, pending)
    /\ attempts' = attempts + 1
    /\ last_add' = [db |-> "row", outcome |-> "row"]
    /\ pending' = Row("none", 0, "dict")
    /\ apc' = "idle"
    /\ UNCHANGED <<ppc, temp_msg, llm_messages, prepared_messages, turn, submitted,
                   snaps, runVars, cmpVars, fnVars>>

\* the insert returns no usable row: add_message logs it and returns None
InsertEmpty ==
    /\ apc = "insert"
    /\ attempts' = attempts + 1
    /\ last_add' = [db |-> "empty", outcome |-> "None"]
    /\ pending' = Row("none", 0, "dict")
    /\ apc' = "idle"
    /\ UNCHANGED <<ppc, store, temp_msg, llm_messages, prepared_messages, turn,
                   submitted, snaps, runVars, cmpVars, fnVars>>

InsertRaises_Mut ==
    /\ apc = "insert"
    /\ attempts' = attempts + 1
    /\ last_add' = [db |-> "error", outcome |-> IF attempts = 0 THEN "none" ELSE "raised"]
    /\ apc' = IF attempts = 0 THEN "insert" ELSE "idle"
    /\ UNCHANGED <<ppc, store, temp_msg, llm_messages, prepared_messages, turn,
                   submitted, snaps, pending, runVars, cmpVars, fnVars>>

\* the insert raises: 'except Exception: ...; raise'
InsertRaises ==
    /\ apc = "insert"
    /\ attempts' = attempts + 1
    /\ last_add' = [db |-> "error", outcome |-> "raised"]
    /\ pending' = Row("none", 0, "dict")
    /\ apc' = "idle"
    /\ UNCHANGED <<ppc, store, temp_msg, llm_messages, prepared_messages, turn,
                   submitted, snaps, runVars, cmpVars, fnVars>>

TurnNext ==
    \/ GetLlmMessages
    \/ GetLlmMessagesFails
    \/ PrepareMessages
    \/ CompressPrepared
    \/ Invoke
    \/ TurnRaises
    \/ Continue
    \/ Stop
    \/ AddMessage
    \/ InsertOk
    \/ InsertEmpty
    \/ InsertRaises

\* no preparation is under way
PrepareIdle ==
    /\ ppc = "idle"
    /\ store = <<>>
    /\ temp_msg = None
    /\ llm_messages = <<>>
    /\ prepared_messages = <<>>
    /\ turn = 0
    /\ submitted = <<>>
    /\ snaps = <<>>
    /\ AddIdle

(***************************************************************************)
(* _is_tool_result_message, called on one message                          *)
(***************************************************************************)
Roles == {"system", "user", "assistant", "tool"}

\* the length of a non-empty content and the place of the marker in it
SomeLen == 40

MarkAt == 10

\* the contents a message can carry: strings, mappings, lists, None or nothing
ToolResultContents ==
    {Content("absent", 0, 0, "none", 0), Content("none", 0, 0, "none", 0),
     Content("text", 0, 0, "none", 0), Content("dict", 0, 0, "none", 0),
     Content("list", 0, 0, "none", 0)}
    \cup {Content("text", SomeLen, mk, "none", 0) : mk \in {0, MarkAt}}
    \cup {Content("jsonerr", SomeLen, mk, "none", 0) : mk \in {0, MarkAt}}
    \cup {Content(f, SomeLen, mk, te, 0) :
              f \in {"json", "dict"}, mk \in {0, MarkAt},
              te \in {"none", "args", "noargs", "bad"}}
    \cup {Content(f, SomeLen, mk, te, 0) :
              f \in {"jsonlist", "list"}, mk \in {0, MarkAt}, te \in {"none", "noargs"}}

ToolResultInit ==
    /\ msg \in {Msg(r, id, c) : r \in Roles, id \in {0, 1}, c \in ToolResultContents}
    /\ is_tool_result = "pending"

IsToolResultCall ==
    /\ is_tool_result = "pending"
    /\ is_tool_result' = IF IsToolResultRaises(msg) THEN "raises"
                         ELSE IF IsToolResultMessage(msg) THEN "true" ELSE "false"
    /\ UNCHANGED <<msg, runVars, cmpVars, prepVars, budgetVars, sumVars>>

ToolResultNext == IsToolResultCall

\* no _is_tool_result_message call is looked at
ToolResultIdle ==
    /\ msg = Msg("none", 0, Content("absent", 0, 0, "none", 0))
    /\ is_tool_result = "idle"

(***************************************************************************)
(* _compress_messages: 'if max_tokens is None', the budget of the model    *)
(***************************************************************************)
\* the families, in the order of the if / elif chain
Families == <<"sonnet", "gpt", "gemini", "deepseek">>

FamilyBudget(f) ==
    CASE f = "sonnet" -> 200 * 1000 - 64000 - 28000
      [] f = "gpt" -> 128 * 1000 - 28000
      [] f = "gemini" -> 1000 * 1000 - 300000
      [] f = "deepseek" -> 128 * 1000 - 28000

FallbackBudget == 41 * 1000 - 10000

\* a model id is a sequence of these parts
Parts == {"claude", "sonnet", "Sonnet", "gpt", "GPT", "gemini", "DeepSeek", "llama"}

ModelIds == UNION {[1 .. n -> Parts] : n \in 0 .. MaxParts}

Lower_Mut(w) == w

\* str.lower()
Lower(w) ==
    CASE w = "Sonnet" -> "sonnet"
      [] w = "GPT" -> "gpt"
      [] w = "DeepSeek" -> "deepseek"
      [] OTHER -> w

\* "f in llm_model.lower()"
InLowered(f, id) == \E i \in 1 .. Len(id) : Lower(id[i]) = f

DefaultMaxTokens(id) ==
    IF InLowered("sonnet", id) THEN FamilyBudget("sonnet")
    ELSE IF InLowered("gpt", id) THEN FamilyBudget("gpt")
    ELSE IF InLowered("gemini", id) THEN FamilyBudget("gemini")
    ELSE IF InLowered("deepseek", id) THEN FamilyBudget("deepseek")
    ELSE FallbackBudget

\* the argument max_tokens: an integer, or None
Given(v) == [given |-> TRUE, value |-> v]

NotGiven == [given |-> FALSE, value |-> 0]

MaxTokensArgs == {NotGiven} \cup {Given(v) : v \in {0} \cup MaxTokensInputs}

BudgetInit ==
    /\ bpc = "enter"
    /\ llm_model \in ModelIds
    /\ max_tokens_arg \in MaxTokensArgs
    /\ budget = 0

\* 'if max_tokens is None: ...'
ResolveMaxTokens ==
    /\ bpc = "enter"
    /\ budget' = IF max_tokens_arg.given THEN max_tokens_arg.value
                 ELSE DefaultMaxTokens(llm_model)
    /\ bpc' = "resolved"
    /\ UNCHANGED <<llm_model, max_tokens_arg, runVars, cmpVars, prepVars, trVars, sumVars>>

BudgetNext == ResolveMaxTokens

BudgetIdle ==
    /\ bpc = "idle"
    /\ llm_model = <<>>
    /\ max_tokens_arg = NotGiven
    /\ budget = 0

(***************************************************************************)
(* ContextManager.check_and_summarize_if_needed                            *)
(***************************************************************************)
\* a row of the messages table: its type and the tokens its content weighs
SummaryRow == [type |-> "summary", tokens |-> 1]

MessageRow(n) == [type |-> "user", tokens |-> n]

SummarizeRows == {SummaryRow, MessageRow(1), MessageRow(3)}

SummarizeThreads == UNION {[1 .. n -> SummarizeRows] : n \in 0 .. MaxRows}

\* self.token_threshold, set by the constructor
Thresholds == {2, 5}

\* the row the summary query finds: the latest of type 'summary', 0 for none
LastSummary(rows) ==
    LET S == {i \in 1 .. Len(rows) : rows[i].type = "summary"}
    IN  IF S = {} THEN 0 ELSE CHOOSE i \in S : \A j \in S : j <= i

IsNoSummary(r) == r.type # "summary"

\* get_messages_for_summarization: the rows after the latest summary, summaries
\* skipped
MessagesForSummarization(rows) ==
    SelectSeq(SubSeq(rows, LastSummary(rows) + 1, Len(rows)), IsNoSummary)

RECURSIVE TokenCounter(_)
\* token_counter(model="gpt-4", messages=messages)
TokenCounter(ms) ==
    IF ms = <<>> THEN 0 ELSE ms[1].tokens + TokenCounter(Tail(ms))

TooFew_Mut(ms) == Len(ms) < 2

\* 'if len(messages) < 3'
TooFew(ms) == Len(ms) < 3

SummarizeInit ==
    /\ spc = "count"
    /\ sum_rows \in SummarizeThreads
    /\ force \in BOOLEAN
    /\ sum_threshold \in Thresholds
    /\ token_count = 0
    /\ sum_messages = <<>>
    /\ summary = FALSE
    /\ callbacks = 0
    /\ callback_done = FALSE
    /\ sum_returned = "pending"

\* 'return False', from an early return or from 'except Exception'
ReturnFalse ==
    /\ spc' = "done"
    /\ sum_returned' = "false"

\* 'if token_count < self.token_threshold and not force: return False'
ThresholdTest(tc) ==
    /\ token_count' = tc
    /\ IF tc < sum_threshold /\ ~force
       THEN ReturnFalse
       ELSE spc' = "fetch" /\ UNCHANGED sum_returned
    /\ UNCHANGED <<sum_rows, force, sum_threshold, sum_messages, summary, callbacks,
                   callback_done, runVars, cmpVars, prepVars, trVars, budgetVars>>

\* get_thread_token_count counts the messages it fetched
GetThreadTokenCount ==
    /\ spc = "count"
    /\ ThresholdTest(TokenCounter(MessagesForSummarization(sum_rows)))

\* get_thread_token_count: the fetch or the counter raised, 0 is returned
GetThreadTokenCountFails ==
    /\ spc = "count"
    /\ ThresholdTest(0)

\* 'if len(messages) < 3: return False'
LengthTest(ms) ==
    /\ sum_messages' = ms
    /\ IF TooFew(ms)
       THEN ReturnFalse
       ELSE spc' = "summarize" /\ UNCHANGED sum_returned
    /\ UNCHANGED <<sum_rows, force, sum_threshold, token_count, summary, callbacks,
                   callback_done, runVars, cmpVars, prepVars, trVars, budgetVars>>

GetMessagesForSummarization ==
    /\ spc = "fetch"
    /\ LengthTest(MessagesForSummarization(sum_rows))

\* get_messages_for_summarization: a query raised, [] is returned
GetMessagesForSummarizationFails ==
    /\ spc = "fetch"
    /\ LengthTest(<<>>)

\* create_summary returned the summary message
CreateSummary ==
    /\ spc = "summarize"
    /\ summary' = TRUE
    /\ spc' = "callback"
    /\ UNCHANGED <<sum_rows, force, sum_threshold, token_count, sum_messages, callbacks,
                   callback_done, sum_returned, runVars, cmpVars, prepVars, trVars,
                   budgetVars>>

\* create_summary returned None: the model call raised or answered nothing
CreateSummaryFails ==
    /\ spc = "summarize"
    /\ ReturnFalse
    /\ UNCHANGED <<sum_rows, force, sum_threshold, token_count, sum_messages, summary,
                   callbacks, callback_done, runVars, cmpVars, prepVars, trVars,
                   budgetVars>>

\* 'await add_message_callback(...)' completed: 'return True'
AddMessageCallback ==
    /\ spc = "callback"
    /\ callbacks' = callbacks + 1
    /\ callback_done' = TRUE
    /\ spc' = "done"
    /\ sum_returned' = "true"
    /\ UNCHANGED <<sum_rows, force, sum_threshold, token_count, sum_messages, summary,
                   runVars, cmpVars, prepVars, trVars, budgetVars>>

\* the callback raised: 'except Exception' returns False
AddMessageCallbackRaises ==
    /\ spc = "callback"
    /\ callbacks' = callbacks + 1
    /\ ReturnFalse
    /\ UNCHANGED <<sum_rows, force, sum_threshold, token_count, sum_messages, summary,
                   callback_done, runVars, cmpVars, prepVars, trVars, budgetVars>>

SummarizeNext ==
    \/ GetThreadTokenCount
    \/ GetThreadTokenCountFails
    \/ GetMessagesForSummarization
    \/ GetMessagesForSummarizationFails
    \/ CreateSummary
    \/ CreateSummaryFails
    \/ AddMessageCallback
    \/ AddMessageCallbackRaises

\* no check_and_summarize_if_needed call is looked at
SummarizeIdle ==
    /\ spc = "idle"
    /\ sum_rows = <<>>
    /\ force = FALSE
    /\ sum_threshold = 0
    /\ token_count = 0
    /\ sum_messages = <<>>
    /\ summary = FALSE
    /\ callbacks = 0
    /\ callback_done = FALSE
    /\ sum_returned = "idle"

FnIdle == ToolResultIdle /\ BudgetIdle /\ SummarizeIdle

\* no run_thread call is under way
RunIdle ==
    /\ ceiling = 0
    /\ pc = "idle"
    /\ auto_continue = FALSE
    /\ auto_continue_count = 0
    /\ out = <<>>
    /\ turns = <<>>
    /\ nContent = 0
    /\ temporary_message = None
    /\ chunk = None
    /\ nChunks = 0

RunNext ==
    \/ RunDirect
    \/ EnterWrapper
    \/ LoopEnter
    \/ LoopExit
    \/ PostLoop
    \/ RelayContent
    \/ DirectContent
    \/ RelayFinish
    \/ DirectFinish
    \/ RelayRaise
    \/ DirectRaise
    \/ RelayEnd
    \/ DirectEnd

Init == RunInit /\ CompressIdle /\ PrepareIdle /\ FnIdle

Next == RunNext

Spec == Init /\ [][Next]_vars

CompressSpecInit == CompressInit /\ RunIdle /\ PrepareIdle /\ FnIdle

CompressSpec == CompressSpecInit /\ [][CompressNext]_vars

PrepareSpecInit == PrepareInit /\ RunIdle /\ CompressIdle /\ FnIdle

PrepareSpec == PrepareSpecInit /\ [][PrepareNext]_vars

TurnSpecInit == TurnInit /\ RunIdle /\ CompressIdle /\ FnIdle

ToolResultSpecInit ==
    ToolResultInit /\ RunIdle /\ CompressIdle /\ PrepareIdle /\ BudgetIdle /\ SummarizeIdle

ToolResultSpec == ToolResultSpecInit /\ [][ToolResultNext]_vars

BudgetSpecInit ==
    BudgetInit /\ RunIdle /\ CompressIdle /\ PrepareIdle /\ ToolResultIdle /\ SummarizeIdle

BudgetSpec == BudgetSpecInit /\ [][BudgetNext]_vars

SummarizeSpecInit ==
    /\ SummarizeInit
    /\ RunIdle /\ CompressIdle /\ PrepareIdle /\ ToolResultIdle /\ BudgetIdle

SummarizeSpec == SummarizeSpecInit /\ [][SummarizeNext]_vars

TurnSpec == TurnSpecInit /\ [][TurnNext]_vars

\* run_thread's generators are driven by a caller that keeps iterating and a
\* response stream that is finite
FairSpec == Spec /\ WF_vars(Next)

(***************************************************************************)
(* Properties of run_thread                                                *)
(***************************************************************************)
Range(s) == {s[i] : i \in 1 .. Len(s)}

NumOut(c) == Cardinality({i \in 1 .. Len(out) : out[i] = c})

\* every _run_once call so far ended with a tool_calls finish chunk
AllToolCalls ==
    \A i \in 1 .. Len(turns) :
        turns[i].fin = "tool_calls" /\ ~turns[i].raised /\ ~turns[i].post

\* every _run_once call so far produced a finish chunk or raised
EachTurnFinishOrRaise ==
    \A i \in 1 .. Len(turns) : turns[i].fin # "none" \/ turns[i].raised

\* C1: with a ceiling N > 0 and every invocation ending with a tool_calls
\* finish chunk, a finished run_thread has made exactly N invocations and its
\* last chunk is the limit-reached chunk, emitted exactly once.
C1_LimitAfterNInvocations ==
    (pc = "done" /\ ceiling > 0 /\ AllToolCalls) =>
        /\ Len(turns) = ceiling
        /\ Len(out) > 0
        /\ out[Len(out)] = LimitChunk
        /\ NumOut(LimitChunk) = 1

C1_Witness ==
    pc = "done" /\ ceiling = 3 /\ AllToolCalls /\ Len(turns) = 3 /\ out = <<LimitChunk>>

\* C2: with ceiling = 0 there is never a second invocation, and a finished
\* run_thread has made exactly one, whatever its finish reason.
C2_CeilingZeroOneInvocation ==
    (ceiling = 0) => (Len(turns) <= 1 /\ (pc = "done" => Len(turns) = 1))

C2_Witness ==
    ceiling = 0 /\ pc = "done" /\ Len(turns) = 1 /\ turns[1].fin = "tool_calls"

\* C3: an invocation whose finish chunk has reason xml_tool_limit_reached is
\* the last invocation, and its finish chunk has been forwarded to the caller.
C3_XmlLimitStops ==
    \A i \in 1 .. Len(turns) :
        turns[i].fin = "xml_tool_limit_reached" =>
            /\ i = Len(turns)
            /\ NumOut(FinishChunk("xml_tool_limit_reached")) = 1

C3_Witness ==
    /\ pc = "done" /\ ceiling = 3 /\ auto_continue_count = 1
    /\ Len(turns) = 2 /\ turns[2].fin = "xml_tool_limit_reached"

\* C4 (as claimed): an invocation that raises is the last invocation, and the
\* error-status chunk it causes is the only one and the last chunk emitted.
C4_ErrorIsFinal ==
    \A i \in 1 .. Len(turns) :
        turns[i].raised =>
            /\ i = Len(turns)
            /\ out[Len(out)] = ErrorChunk
            /\ NumOut(ErrorChunk) = 1

HasFinish == \E i \in 1 .. Len(out) : out[i].type = "finish"

\* C5 (as claimed): a finished run_thread whose invocations each produced a
\* finish chunk or raised has delivered a finish chunk or an error-status chunk
\* (stated here for the calls that made at least one invocation).
C5_TerminalChunkDelivered ==
    (pc = "done" /\ Len(turns) >= 1 /\ EachTurnFinishOrRaise) =>
        (HasFinish \/ ErrorChunk \in Range(out))

\* C5 (amended): ... has delivered a finish chunk, an error-status chunk or
\* the limit-reached chunk.
C5_TerminalOrLimitDelivered ==
    (pc = "done" /\ EachTurnFinishOrRaise) =>
        (HasFinish \/ ErrorChunk \in Range(out) \/ LimitChunk \in Range(out))

C5_Witness ==
    /\ pc = "done" /\ EachTurnFinishOrRaise /\ Len(turns) = 2
    /\ ~HasFinish /\ ErrorChunk \notin Range(out) /\ LimitChunk \in Range(out)

\* C6: for a ceiling >= 0, run_thread terminates, having made at least one
\* and at most max(1, ceiling) invocations.
C6_TerminatesWithinCeiling ==
    (ceiling >= 0) =>
        <>(pc = "done" /\ Len(turns) >= 1 /\ Len(turns) <= Max(1, ceiling))

C6_Witness ==
    pc = "done" /\ ceiling = 2 /\ Len(turns) = Max(1, ceiling) /\ ~AllToolCalls

(***************************************************************************)
(* Properties of _compress_messages                                        *)
(***************************************************************************)
\* the input after meta-stripping, as a fresh call would compute it
Stripped == RemoveMetaMessages(input)

\* the index of the most recent message of the kind in seq (0: none)
LastOf(seq, kind) ==
    LET S == {i \in 1 .. Len(seq) : Selected(seq[i], kind)} IN
    IF S = {} THEN 0 ELSE CHOOSE i \in S : \A j \in S : j <= i

\* C7: a call with max_iterations > 0 whose meta-stripped input is within
\* max_tokens returns the meta-stripped input, no content cut, after one level.
C7_UnderBudgetOnlyStripped ==
    (cpc = "returned" /\ iterations0 > 0 /\ ~MetaRaises(input)
        /\ TotalTokens(Stripped) <= max_tokens) =>
        /\ returned = Stripped
        /\ \A i \in 1 .. Len(returned) : returned[i].content.cuts = <<>>
        /\ passes = 1

C7_Witness ==
    /\ cpc = "returned" /\ iterations0 > 0 /\ ~MetaRaises(input)
    /\ TotalTokens(Stripped) <= max_tokens
    /\ \E i \in 1 .. Len(input) : MsgTokens(Stripped[i]) > token_threshold
    /\ \E i \in 1 .. Len(input) : Stripped[i] # input[i]

\* C8: the value returned has the length of the input and, at each position,
\* the role and message_id of the input message at that position.
C8_SameRolesAndIds ==
    (cpc = "returned") =>
        /\ Len(returned) = Len(input)
        /\ \A i \in 1 .. Len(input) :
             returned[i].role = input[i].role /\ returned[i].id = input[i].id

C8_Witness ==
    /\ cpc = "returned" /\ ~exhausted /\ passes = 2 /\ Len(input) = 3
    /\ \A i \in 1 .. Len(input) : returned[i].content.cuts # <<>>

NoCompressCut(c) == \A k \in 1 .. Len(c.cuts) : c.cuts[k].sfx # "compress"

\* C9 (as claimed): for an over-budget input, the most recent tool-result
\* message, the most recent user message and the most recent assistant message
\* are returned unchanged or safe-truncated, never as a compressed fragment.
C9_MostRecentNeverCompressed ==
    (cpc = "returned" /\ ~MetaRaises(input) /\ TotalTokens(Stripped) > max_tokens) =>
        \A kind \in {"tool_result", "user", "assistant"} :
            LastOf(Stripped, kind) # 0 =>
                NoCompressCut(returned[LastOf(Stripped, kind)].content)

\* C10: a value returned by a level that had iterations left is within
\* max_tokens; a value over max_tokens comes from 'max_iterations <= 0'.
C10_WithinBudgetUnlessExhausted ==
    (cpc = "returned" /\ ~exhausted) => TotalTokens(returned) <= max_tokens

C10_Witness ==
    /\ cpc = "returned" /\ ~exhausted /\ passes = 2
    /\ TotalTokens(Stripped) > max_tokens
    /\ TotalTokens(returned) <= max_tokens

\* one level's work on a sequence: meta-stripping, then the three role passes
SinglePass(seq, max, threshold) ==
    RolePass(RolePass(RolePass(RemoveMetaMessages(seq),
        "tool_result", max, threshold), "user", max, threshold),
        "assistant", max, threshold)

Retries == iterations0 - max_iterations

IsPowerOfTwo(n) == \E e \in 0 .. 12 : n = 2 ^ e

\* C12: from a power-of-two initial threshold T the threshold in
\* effect after k retries is T / 2^k and is a power of two, for every k up to
\* the retry limit.
C12_ThresholdExactHalves ==
    (IsPowerOfTwo(threshold0) /\ cpc # "idle") =>
        /\ token_threshold * (2 ^ Retries) = threshold0
        /\ IsPowerOfTwo(token_threshold)

\* C13: every retry level starts from contents equal to those the caller
\* supplied, so what is returned equals a single pass over the original input
\* at the final threshold.
C13_RetryOnOriginal ==
    /\ (cpc = "enter" => messages = input)
    /\ (cpc = "returned" /\ ~exhausted) =>
            returned = SinglePass(input, max_tokens, token_threshold)

\* C14: after the call returns, every message the caller passed in has the
\* content it had before the call.
C14_InputNotModified ==
    (cpc = "returned") => messages = input

\* C15: when the last permitted pass leaves the sequence over budget, the value
\* returned is the sequence that pass produced.
C15_ReturnsLastPassResult ==
    (cpc = "returned" /\ exhausted /\ passes >= 1) =>
        /\ TotalTokens(result) > max_tokens
        /\ returned = result

\* steps a level still has to make, by position
StepsLeft(p) ==
    CASE p = "enter" -> 5
      [] p = "tool_result" -> 4
      [] p = "user" -> 3
      [] p = "assistant" -> 2
      [] p = "check" -> 1
      [] OTHER -> 0

\* a bound on the steps the call can still make
Rank == 6 * max_iterations + StepsLeft(cpc)

\* C16: the call terminates: every step lowers a rank that is never negative;
\* each recursive level lowers max_iterations by exactly one, and at most
\* max_iterations + 1 passes are performed.
C16_Terminates ==
    /\ [](Rank >= 0 /\ passes <= Max(iterations0, 0) + 1)
    /\ [][/\ Rank' < Rank
          /\ (cpc = "check" /\ cpc' = "enter") =>
                 (max_iterations' = max_iterations - 1 /\ max_iterations' >= 0)]_vars

C16_Witness ==
    /\ cpc = "returned" /\ exhausted
    /\ iterations0 = MaxRetries /\ passes = MaxRetries
    /\ TotalTokens(result) > max_tokens

(***************************************************************************)
(* Properties of the prepared messages                                     *)
(***************************************************************************)
HasUser(msgs) == \E i \in 1 .. Len(msgs) : msgs[i].role = "user"

\* the temporary message sits at position at + 1 of the prompt, the system
\* prompt is first and the thread keeps its order around it
PlacedBefore(prompt, thread, temp, at) ==
    /\ Len(prompt) = Len(thread) + 2
    /\ prompt[1] = SystemPrompt
    /\ \A i \in 1 .. at - 1 : prompt[i + 1] = thread[i]
    /\ prompt[at + 1] = temp
    /\ \A i \in at .. Len(thread) : prompt[i + 2] = thread[i]

\* C17: with a user message in the thread the temporary message is placed
\* immediately before the last user message, after the system prompt and the
\* messages that precede it; with no temporary message the prompt is the
\* system prompt followed by the thread.
C17_BeforeLastUser ==
    (ppc = "prepared") =>
        /\ (HasUser(llm_messages) /\ temp_msg # None) =>
               \E k \in 1 .. Len(llm_messages) :
                   /\ llm_messages[k].role = "user"
                   /\ \A j \in k + 1 .. Len(llm_messages) : llm_messages[j].role # "user"
                   /\ PlacedBefore(prepared_messages, llm_messages, temp_msg, k)
        /\ (temp_msg = None) => prepared_messages = <<SystemPrompt>> \o llm_messages

C17_Witness ==
    /\ ppc = "prepared" /\ temp_msg = TemporaryMessage
    /\ Len(llm_messages) = 3
    /\ llm_messages[1].role = "user" /\ llm_messages[2].role = "user"
    /\ llm_messages[3].role = "assistant"
    /\ prepared_messages[3] = TemporaryMessage

\* C18: with no user message in the thread, the empty thread included, the
\* prompt is the system prompt, the thread, and the temporary message last.
C18_NoUserAppended ==
    (ppc = "prepared" /\ ~HasUser(llm_messages) /\ temp_msg # None) =>
        PlacedBefore(prepared_messages, llm_messages, temp_msg, Len(llm_messages) + 1)

C18_Witness ==
    /\ ppc = "prepared" /\ temp_msg = TemporaryMessage
    /\ llm_messages = <<>> /\ store = <<>>
    /\ prepared_messages = <<SystemPrompt, TemporaryMessage>>

C18_WitnessNoUser ==
    /\ ppc = "prepared" /\ temp_msg = TemporaryMessage
    /\ Len(llm_messages) = 2 /\ ~HasUser(llm_messages)
    /\ prepared_messages[4] = TemporaryMessage

(***************************************************************************)
(* The temporary message and the relayed chunks of run_thread              *)
(***************************************************************************)
\* the threads get_llm_messages returns when every row parses
Threads ==
    UNION {{[i \in 1 .. n |-> Message(r[i], i)] : r \in [1 .. n -> ThreadRoles]} :
                n \in 0 .. MaxThread}

\* the prompt of the i-th _run_once call over the thread th
TurnPrompt(i, th) == PreparedMessages(SystemPrompt, th, turns[i].temp_msg)

\* a prompt holds the temporary message exactly when _run_once was given it
PromptHoldsTempIffGiven ==
    \A tm \in TemporaryMessages : \A th \in Threads :
        (TemporaryMessage \in Range(PreparedMessages(SystemPrompt, th, tm)))
            <=> (tm = TemporaryMessage)

\* C19: the first _run_once call is given the temporary message of the
\* run_thread call and every later call is given None, so that, whatever the
\* thread holds, the first prompt contains it and no later prompt does.
C19_TemporaryOnlyFirst ==
    /\ PromptHoldsTempIffGiven
    /\ \A i \in 1 .. Len(turns) :
           turns[i].temp_msg = IF i = 1 THEN temporary_message ELSE None

C19_Witness ==
    /\ pc = "done" /\ temporary_message = TemporaryMessage
    /\ Len(turns) = 3
    /\ turns[1].temp_msg = TemporaryMessage
    /\ turns[2].temp_msg = None /\ turns[3].temp_msg = None
    /\ TemporaryMessage \in Range(TurnPrompt(1, <<Message("user", 1)>>))
    /\ TemporaryMessage \notin Range(TurnPrompt(2, <<Message("user", 1)>>))

\* the chunks the wrapper withholds: tool_calls finish chunks under a ceiling > 0
Withheld(ch) == ch = FinishChunk("tool_calls") /\ ceiling > 0

\* C20: each chunk a _run_once call yields is passed to the caller in the same
\* step, once, unless it is a tool_calls finish chunk under a ceiling > 0,
\* which is not passed at all (with ceiling 0 every chunk is passed); nothing
\* else reaches the caller but the limit-reached chunk of the wrapper.
C20_ForwardedOnceInOrder ==
    [][IF nChunks' = nChunks + 1
       THEN out' = IF Withheld(chunk') THEN out ELSE Append(out, chunk')
       ELSE /\ nChunks' = nChunks
            /\ chunk' = chunk
            /\ out' \in {out, Append(out, LimitChunk)}]_vars

C20_Witness ==
    /\ pc = "done" /\ ceiling = 2 /\ Len(turns) = 2
    /\ nChunks = 5
    /\ turns[1].fin = "tool_calls"
    /\ out = <<ContentChunk, ContentChunk, ContentChunk, FinishChunk("stop")>>

C20_WitnessDirect ==
    /\ pc = "done" /\ ceiling = 0 /\ nChunks = 3
    /\ out = <<ContentChunk, FinishChunk("tool_calls"), ContentChunk>>

(***************************************************************************)
(* The limit-reached chunk, the continuation and its counter               *)
(***************************************************************************)
LastTurn == turns[Len(turns)]

\* C21: the limit-reached chunk is emitted at most once, as the last chunk,
\* and only after an invocation that ended with a tool_calls finish chunk and
\* without an error, the counter having reached the ceiling; in particular
\* never when no invocation was made.
C21_LimitChunkOnlyAtCeiling ==
    /\ NumOut(LimitChunk) <= 1
    /\ (LimitChunk \in Range(out)) =>
           /\ out[Len(out)] = LimitChunk
           /\ Len(turns) >= 1
           /\ LastTurn.fin = "tool_calls"
           /\ ~LastTurn.raised
           /\ auto_continue_count >= ceiling

(***************************************************************************)
(* Properties of _remove_meta_messages                                     *)
(***************************************************************************)
\* C22: _remove_meta_messages applied to its own output changes no content.
C22_StrippingIdempotent ==
    (cpc = "tool_result") =>
        /\ ~MetaRaises(result)
        /\ RemoveMetaMessages(result) = result

C22_Witness ==
    /\ cpc = "tool_result" /\ passes = 0 /\ Len(input) = 3
    /\ input[1].content.te = "args" /\ input[1].content.pad > 0
    /\ result[1].content.n # input[1].content.n
    /\ input[2].content.form = "dict" /\ result[2].content.form = "json"
    /\ input[3].content.form = "text"

\* C23: for a message whose content is, or parses as, a mapping with a
\* tool_execution mapping, _remove_meta_messages returns a new message object
\* with the same role and message_id whose content is the mapping without
\* tool_execution's 'arguments' and with everything else; the message passed
\* in is left as it was.
C23_OnlyArgumentsRemoved ==
    (cpc = "tool_result") =>
        \A i \in 1 .. Len(messages) :
            (IsMetaDict(messages[i]) /\ messages[i].content.te \in {"args", "noargs"}) =>
                LET old == messages[i].content
                    new == result[i].content IN
                /\ ~shared[i]
                /\ result[i].role = messages[i].role /\ result[i].id = messages[i].id
                /\ ParsesAsDict(new) /\ new.te = "noargs" /\ new.mark = old.mark
                /\ new.n = old.n + old.pad - (IF old.te = "args" THEN old.argn ELSE 0)
                /\ messages[i] = input[i]

C23_Witness ==
    /\ cpc = "tool_result" /\ passes = 0 /\ Len(messages) = 2
    /\ messages[1].content.te = "args" /\ messages[1].content.form = "json"
    /\ result[1].content.te = "noargs" /\ result[1].content.n < messages[1].content.n
    /\ messages[2].content.te = "noargs" /\ messages[2].content.form = "dict"
    /\ result[2].content.n = messages[2].content.n

(***************************************************************************)
(* Properties of add_message                                               *)
(***************************************************************************)
\* C24: an add_message call makes exactly one insert attempt, and when the
\* insert raised the call raised: it neither retried nor returned.
C24_OneInsertNoRetry ==
    /\ (apc = "insert") => attempts = 0
    /\ (apc = "idle" /\ last_add.outcome # "none") => attempts = 1
    /\ (last_add.db = "error") => last_add.outcome = "raised"

C24_Witness ==
    /\ apc = "idle" /\ last_add = [db |-> "error", outcome |-> "raised"]
    /\ attempts = 1 /\ Len(store) = 2 /\ ppc = "relay"

(***************************************************************************)
(* Properties of the role passes                                           *)
(***************************************************************************)
\* C25: the role passes of one compression pass run in the order tool-result,
\* user, assistant; the user pass and the assistant pass each measure the whole
\* sequence as the pass before left it and change no message when it is within
\* max_tokens.
C25_RolePassesInOrderAndSkipped ==
    [][/\ (cpc = "enter" /\ cpc' \notin {"enter", "returned", "raised"}) => cpc' = "tool_result"
       /\ (cpc = "tool_result") => cpc' = "user"
       /\ (cpc = "user") => cpc' = "assistant"
       /\ (cpc = "assistant") => cpc' = "check"
       /\ (cpc \in {"user", "assistant"} /\ TotalTokens(result) <= max_tokens) =>
              (result' = result /\ messages' = messages)]_vars

\* the tool-result pass brought an over-budget sequence within max_tokens, and
\* the user pass left an older user message above the threshold as it was
C25_Witness ==
    /\ cpc = "assistant"
    /\ TotalTokens(input) > max_tokens
    /\ TotalTokens(result) <= max_tokens
    /\ \E i \in 1 .. Len(result), j \in 1 .. Len(result) :
           /\ i < j
           /\ result[i].role = "user" /\ result[j].role = "user"
           /\ result[i].id # 0
           /\ ~IsToolResultMessage(result[i])
           /\ MsgTokens(result[i]) > token_threshold
           /\ result[i].content = input[i].content

(***************************************************************************)
(* Properties of the continuation                                          *)
(***************************************************************************)
\* C26: an invocation after the first is started only when the invocation
\* before it produced a tool_calls finish chunk, the ceiling is positive and
\* the counter is below the ceiling; so every invocation but the last one
\* produced a tool_calls finish chunk.
C26_ContinuesOnlyAfterToolCalls ==
    [][/\ (Len(turns') = Len(turns) + 1 /\ Len(turns) >= 1) =>
              /\ turns[Len(turns)].fin = "tool_calls"
              /\ ceiling > 0
              /\ auto_continue_count < ceiling
       /\ \A i \in 1 .. Len(turns) - 1 : turns[i].fin = "tool_calls"]_vars

C26_Witness ==
    /\ pc = "relay" /\ ceiling = 2 /\ auto_continue_count = 1
    /\ Len(turns) = 2 /\ turns[1].fin = "tool_calls" /\ ~turns[1].raised
    /\ turns[2].fin = "none"

\* the chunks _run_once produced that were not passed on to the caller
Suppressed == nChunks - (Len(out) - NumOut(LimitChunk))

\* C27 (as claimed): the counter is 0 when run_thread starts, and in every
\* state it is at most the ceiling and equals the number of finish chunks
\* withheld from the caller so far.
C27_CounterWithinCeiling ==
    /\ (pc = "entry") => auto_continue_count = 0
    /\ auto_continue_count <= ceiling
    /\ auto_continue_count = Suppressed

\* a role pass is about to run
InRolePass == cpc \in {"tool_result", "user", "assistant"}

\* C29: a role pass leaves every message whose own token count is at or below
\* the threshold in effect as it was, also when the sequence is over budget.
C29_AtOrBelowThresholdKept ==
    [][InRolePass =>
          \A i \in 1 .. Len(result) :
              MsgTokens(result[i]) <= token_threshold => result'[i] = result[i]]_vars

\* the sequence was over budget, the user pass cut an older user message and
\* left the most recent one, which is exactly at the threshold, as it was
C29_Witness ==
    /\ cpc = "assistant" /\ passes = 1
    /\ \E i \in 1 .. Len(result), j \in 1 .. Len(result) :
           /\ i < j
           /\ result[i].role = "user" /\ result[i].content.cuts # <<>>
           /\ result[i].content.cuts[Len(result[i].content.cuts)].sfx = "compress"
           /\ result[j].role = "user" /\ ~IsToolResultMessage(result[j])
           /\ MsgTokens(result[j]) = token_threshold
           /\ result[j].content.cuts = <<>>
           /\ \A k \in j + 1 .. Len(result) : result[k].role # "user"

\* C30: a message selected by the role pass that is not the most recent one
\* selected and has no message_id keeps its content in that pass, however
\* many tokens it has.
C30_NoMessageIdKept ==
    [][InRolePass =>
          \A i \in 1 .. Len(result) :
              (/\ Selected(result[i], cpc)
               /\ CountFromEnd(result, i, cpc) > 1
               /\ result[i].id = 0) => result'[i] = result[i]]_vars

\* the assistant pass ran over budget and left an older assistant message
\* without message_id above the threshold as it was, and cut the latest one
C30_Witness ==
    /\ cpc = "check" /\ passes = 1
    /\ \E i \in 1 .. Len(result), j \in 1 .. Len(result) :
           /\ i < j
           /\ result[i].role = "assistant" /\ result[i].id = 0
           /\ MsgTokens(result[i]) > token_threshold
           /\ result[i].content.cuts = <<>>
           /\ result[j].role = "assistant" /\ result[j].content.cuts # <<>>

(***************************************************************************)
(* Properties of the turns of one run_thread call                          *)
(***************************************************************************)
\* the rows appended between the fetch of turn n and the fetch of turn n + 1
AppendedDuring(n) == snaps[n].upto + 1 .. snaps[n + 1].upto

\* C28 (as claimed): every prompt was submitted after the fetch of its turn and
\* holds no message appended after that fetch, and every message appended
\* while turn n ran is in the prompt of turn n + 1.
C28_AppendedInNextHistory ==
    /\ Len(submitted) <= Len(snaps)
    /\ \A n \in 1 .. Len(submitted) :
           \A k \in 1 .. Len(submitted[n]) : submitted[n][k].id <= snaps[n].upto
    /\ \A n \in 1 .. Len(submitted) - 1 :
           \A i \in AppendedDuring(n) :
               Message(store[i].role, i) \in Range(submitted[n + 1])

(***************************************************************************)
(* Properties of _compress_message and _safe_truncate                      *)
(***************************************************************************)
\* the role pass about to run compresses message i: it is selected, not the
\* most recent one selected, has a message_id and is above the threshold
CompressedByPass(i) ==
    /\ InRolePass
    /\ OverBudget(TotalTokens(result), max_tokens)
    /\ Selected(result[i], cpc)
    /\ CountFromEnd(result, i, cpc) > 1
    /\ result[i].id # 0
    /\ MsgTokens(result[i]) > token_threshold

\* C31 (as claimed): an older message above the threshold t is replaced by a
\* prefix of its content followed by the pointer naming its message_id, and
\* the replacement is at most 3 * t characters long.
C31_FragmentCappedAtThreeT ==
    [][\A i \in 1 .. Len(result) :
          CompressedByPass(i) =>
              LET new == result'[i].content IN
              /\ new.cuts # <<>>
              /\ new.cuts[Len(new.cuts)].sfx = "compress"
              /\ new.cuts[Len(new.cuts)].id = result[i].id
              /\ ContentLen(new) <= 3 * token_threshold]_vars

(***************************************************************************)
(* Properties of _is_tool_result_message                                   *)
(***************************************************************************)
\* the condition of C32, read off the message
MarkedAsToolResult(m) ==
    LET c == m.content IN
    /\ c.n > 0
    /\ \/ c.form \in {"text", "json", "jsonlist", "jsonerr"} /\ c.mark > 0
       \/ c.form = "dict" /\ c.te # "none"
       \/ c.form = "json" /\ c.te # "none"

\* C32 (as claimed): the call does not raise, and answers true exactly for a
\* non-empty content that is a string holding the marker, a mapping with the
\* key tool_execution, or a string that parses to such a mapping.
C32_ToolResultExactlyWhenMarked ==
    (is_tool_result \notin {"idle", "pending"}) =>
        /\ is_tool_result # "raises"
        /\ (is_tool_result = "true") <=> MarkedAsToolResult(msg)

(***************************************************************************)
(* Properties of _remove_meta_messages                                     *)
(***************************************************************************)
\* the message is passed through by C33: its content is not a mapping and does
\* not parse to one, or its tool_execution is not a mapping
PassedThrough(m) == ~IsMetaDict(m) \/ m.content.te = "bad"

\* C33 (as claimed): meta-stripping does not raise, and it returns a message
\* whose content is no mapping, does not parse to one, or holds a
\* tool_execution that is not a mapping with its content unchanged.
C33_MetaStrippingNeverRaises ==
    /\ cpc # "raised"
    /\ (cpc = "tool_result") =>
           \A i \in 1 .. Len(messages) :
               PassedThrough(messages[i]) => result[i].content = messages[i].content

(***************************************************************************)
(* Properties of the default of max_tokens                                 *)
(***************************************************************************)
\* the parts that spell a family, in any case
Spellings(f) ==
    CASE f = "sonnet" -> {"sonnet", "Sonnet"}
      [] f = "gpt" -> {"gpt", "GPT"}
      [] f = "gemini" -> {"gemini"}
      [] f = "deepseek" -> {"DeepSeek"}

\* the first family of the chain that the model id holds in any case (0: none)
FirstFamily(id) ==
    LET S == {k \in 1 .. Len(Families) :
                 \E i \in 1 .. Len(id) : id[i] \in Spellings(Families[k])} IN
    IF S = {} THEN 0 ELSE CHOOSE k \in S : \A j \in S : k <= j

\* C34 (as claimed): a given max_tokens is used as it is; otherwise the budget
\* is that of the first family found in the lowered model id, which is the
\* budget of no other family, and without any family it is the fallback, which
\* is below the budget of every family.
C34_FamiliesDistinctBudgets ==
    (bpc = "resolved") =>
        /\ max_tokens_arg.given => budget = max_tokens_arg.value
        /\ (~max_tokens_arg.given /\ FirstFamily(llm_model) # 0) =>
               /\ budget = FamilyBudget(Families[FirstFamily(llm_model)])
               /\ \A k \in 1 .. Len(Families) :
                      k # FirstFamily(llm_model) => budget # FamilyBudget(Families[k])
        /\ (~max_tokens_arg.given /\ FirstFamily(llm_model) = 0) =>
               /\ budget = FallbackBudget
               /\ \A k \in 1 .. Len(Families) : budget < FamilyBudget(Families[k])

\* C34 (amended): as above, but the budget of the first family found is only
\* different from the budgets of the other families where the code makes it
\* so: gpt and deepseek have the same budget.
C34_BudgetByFirstFamily ==
    (bpc = "resolved") =>
        /\ max_tokens_arg.given => budget = max_tokens_arg.value
        /\ (~max_tokens_arg.given /\ FirstFamily(llm_model) # 0) =>
               /\ budget = FamilyBudget(Families[FirstFamily(llm_model)])
               /\ \A k \in 1 .. Len(Families) :
                      (k # FirstFamily(llm_model)
                          /\ {Families[k], Families[FirstFamily(llm_model)]} # {"gpt", "deepseek"}) =>
                      budget # FamilyBudget(Families[k])
               /\ (Families[FirstFamily(llm_model)] \in {"gpt", "deepseek"}) =>
                      budget = FamilyBudget("gpt") /\ budget = FamilyBudget("deepseek")
        /\ (~max_tokens_arg.given /\ FirstFamily(llm_model) = 0) =>
               /\ budget = FallbackBudget
               /\ \A k \in 1 .. Len(Families) : budget < FamilyBudget(Families[k])

\* an id written in capitals that holds two families resolves to the first of
\* the chain, not the first in the id
C34_Witness ==
    /\ bpc = "resolved" /\ ~max_tokens_arg.given
    /\ llm_model = <<"GPT", "Sonnet">>
    /\ budget = FamilyBudget("sonnet")

\* C35 (as claimed): in the value returned by a call that ran at least one
\* level, no content is longer than it was after meta-stripping.
C35_NeverLonger ==
    (cpc = "returned" /\ iterations0 > 0) =>
        \A i \in 1 .. Len(returned) :
            ContentLen(returned[i].content) <= ContentLen(Stripped[i].content)

\* C36 (as claimed): when the first message given to _compress_messages is the
\* system prompt, the first message returned has the content of that prompt.
C36_SystemPromptKept ==
    (cpc = "returned" /\ Len(input) >= 1 /\ input[1].role = "system") =>
        returned[1].content = input[1].content

\* the prompt without any history
BarePrompt(temp) == IF temp = None THEN <<SystemPrompt>> ELSE <<SystemPrompt, temp>>

\* the fetch of the turn under way failed
FetchFailed == Len(snaps) = turn /\ ~snaps[turn].ok

\* C37: a fetch that fails does not end the turn: get_llm_messages gives the
\* empty sequence, the turn goes on to prepare its prompt, and the prompt it
\* prepares and submits is the system prompt followed by the temporary message
\* if there is one.
C37_FetchFailureEmptyHistory ==
    [][/\ (ppc = "fetch" /\ ppc' # "fetch") => ppc' = "prepare"
       /\ (FetchFailed /\ ppc = "prepare") => llm_messages = <<>>
       /\ (FetchFailed /\ ppc \in {"prepared", "compressed"}) =>
              prepared_messages = BarePrompt(temp_msg)
       /\ (FetchFailed /\ ppc = "compressed" /\ ppc' = "relay") =>
              submitted' = Append(submitted, BarePrompt(temp_msg))
       /\ \A n \in 1 .. Len(submitted) :
              ~snaps[n].ok => submitted[n] \in {BarePrompt(None), BarePrompt(TemporaryMessage)}]_vars

\* the thread is not empty, the fetch failed and the model was called with the
\* system prompt and the temporary message
C37_Witness ==
    /\ ppc = "relay" /\ turn = 1 /\ FetchFailed
    /\ Len(store) >= 1 /\ store[1].kind = "dict" /\ snaps[1].upto >= 1
    /\ submitted = <<BarePrompt(TemporaryMessage)>>

\* the messages a summary would cover: those after the latest summary row
Summarizable == MessagesForSummarization(sum_rows)

\* C38: check_and_summarize_if_needed invokes the callback at most once per call,
\* and only when (the thread's token count is at least the threshold, or force
\* is set) and at least 3 messages are available and a summary was produced; it
\* returns True exactly when the callback was invoked and completed, and in
\* every other case, an exception included, it returns False.
C38_SummarizeOnlyWhenNeeded ==
    /\ callbacks <= 1
    /\ callbacks = 1 =>
           /\ force \/ TokenCounter(Summarizable) >= sum_threshold
           /\ Len(Summarizable) >= 3
           /\ summary
    /\ (sum_returned = "true") <=> (callbacks = 1 /\ callback_done)
    /\ spc = "done" => sum_returned \in {"true", "false"}
    /\ (spc = "done" /\ ~(callbacks = 1 /\ callback_done)) => sum_returned = "false"

C38_Witness ==
    /\ spc = "done" /\ sum_returned = "true" /\ callbacks = 1 /\ callback_done
    /\ ~force /\ LastSummary(sum_rows) > 0
    /\ Len(Summarizable) = 3 /\ token_count = sum_threshold

====
